---- MODULE Spec2Model ----
(***************************************************************************)
(* Model of src/file/source/file.rs: FileSourceFile::find_file (the upward *)
(* search for a configuration file), FileSource::resolve (display path and *)
(* read of the file) and path_relative_from (lexical relative path).       *)
(*                                                                         *)
(* A path is a record [abs, segs]: abs says whether it starts at the root, *)
(* segs is the sequence of its raw segments ("." and ".." included).       *)
(* An Option<T> is a sequence of length at most one.                       *)
(***************************************************************************)
EXTENDS Integers, Sequences, FiniteSets, TLC

\* ---------------------------------------------------------------- bounds
\* deepest working directory the model starts in (number of components)
MaxDepth == 2
\* longest raw path handed to path_relative_from
MaxLen == 3
\* number of changes a concurrent actor makes to the filesystem
MaxEnv == 1

\* ------------------------------------------------------------ input sets
\* names of the directories on the chain from the root downwards
DirNames == <<"a", "b", "c", "d">>
\* extensions a format can yield
Exts == {"toml", "yaml"}
\* raw segments of the paths given to path_relative_from
Segs == {"a", "b", "c", ".", ".."}
\* FileSourceFile.name
name == "Settings"

None == <<>>
Some(v) == <<v>>

\* ------------------------------------------------------------ path model
RECURSIVE DropCurDir(_)
DropCurDir(s) ==
    IF s = <<>> THEN <<>>
    ELSE IF Head(s) = "." THEN DropCurDir(Tail(s))
    ELSE <<Head(s)>> \o DropCurDir(Tail(s))

\* Path::components: RootDir first for an absolute path, a leading "." of a
\* relative path is kept as CurDir, every other "." is dropped
components(p) ==
    IF p.abs THEN <<"/">> \o DropCurDir(p.segs)
    ELSE IF p.segs # <<>> /\ Head(p.segs) = "."
         THEN <<".">> \o DropCurDir(Tail(p.segs))
         ELSE DropCurDir(p.segs)

\* collect::<PathBuf>() of components: pushing RootDir replaces the path
RECURSIVE collect(_, _)
collect(comps, acc) ==
    IF comps = <<>> THEN acc
    ELSE IF Head(comps) = "/"
         THEN collect(Tail(comps), [abs |-> TRUE, segs |-> <<>>])
         ELSE collect(Tail(comps), [abs |-> acc.abs, segs |-> Append(acc.segs, Head(comps))])

EmptyPath == [abs |-> FALSE, segs |-> <<>>]

\* variant: the remaining components of base are not counted
ParentDirs_skipped(n) == <<>>

ParentDirs(n) == [k \in 1..n |-> ".."]

\* the loop of path_relative_from over the two component iterators
RECURSIVE relative_loop(_, _, _)
relative_loop(ita, itb, comps) ==
    IF ita = <<>> /\ itb = <<>> THEN Some(comps)
    ELSE IF itb = <<>> THEN Some(comps \o ita)
    ELSE IF ita = <<>> THEN relative_loop(<<>>, Tail(itb), Append(comps, ".."))
    ELSE IF comps = <<>> /\ Head(ita) = Head(itb)
         THEN relative_loop(Tail(ita), Tail(itb), comps)
    ELSE IF Head(itb) = "."
         THEN relative_loop(Tail(ita), Tail(itb), Append(comps, Head(ita)))
    ELSE IF Head(itb) = ".." THEN None
    ELSE Some(comps \o <<"..">> \o ParentDirs(Len(Tail(itb))) \o ita)

\* variant: the absolute path of the mixed case is rebuilt from its components
path_relative_from_rebuilt(p, b) ==
    IF p.abs # b.abs
    THEN IF p.abs THEN Some(collect(components(p), EmptyPath)) ELSE None
    ELSE LET r == relative_loop(components(p), components(b), <<>>)
         IN  IF r = None THEN None ELSE Some(collect(r[1], EmptyPath))

path_relative_from(p, b) ==
    IF p.abs # b.abs
    THEN IF p.abs THEN Some(p) ELSE None
    ELSE LET r == relative_loop(components(p), components(b), <<>>)
         IN  IF r = None THEN None ELSE Some(collect(r[1], EmptyPath))

RECURSIVE JoinSegs(_)
JoinSegs(s) ==
    IF s = <<>> THEN ""
    ELSE IF Len(s) = 1 THEN Head(s)
    ELSE Head(s) \o "/" \o JoinSegs(Tail(s))

\* Path::to_string_lossy
to_string(p) == (IF p.abs THEN "/" ELSE "") \o JoinSegs(p.segs)

\* ------------------------------------------------------------ filesystem
\* a PathBuf naming a file: directory segments, file stem and extension
file_name(f) == IF f.ext = "" THEN f.stem ELSE f.stem \o "." \o f.ext

ToPath(f) == [abs |-> TRUE, segs |-> f.dirs \o <<file_name(f)>>]

AbsDir(d) == [abs |-> TRUE, segs |-> d]

\* segments of the optional subdirectory FileSourceFile.path
SubSegs(p) == IF p = None THEN <<>> ELSE <<p[1]>>

\* basename: path (when given) joined with name, no extension
basename_of(p) == [abs |-> FALSE, segs |-> SubSegs(p) \o <<name>>]

\* Path::join of the working directory and the relative basename
join(d, b) ==
    [dirs |-> d \o SubSeq(b.segs, 1, Len(b.segs) - 1),
     stem |-> b.segs[Len(b.segs)],
     ext  |-> ""]

\* PathBuf::set_extension on a file name without a dot in its stem
set_extension(f, e) == [f EXCEPT !.ext = e]

\* variant: the root is its own parent
pop_stuck(d) ==
    IF d = <<>> THEN [ok |-> TRUE, dir |-> d]
    ELSE [ok |-> TRUE, dir |-> SubSeq(d, 1, Len(d) - 1)]

\* variant: one pop leads to the root
pop_to_root(d) ==
    IF d = <<>> THEN [ok |-> FALSE, dir |-> d]
    ELSE [ok |-> TRUE, dir |-> <<>>]

\* PathBuf::pop: false on the root, else truncates to the parent
pop(d) ==
    IF d = <<>> THEN [ok |-> FALSE, dir |-> d]
    ELSE [ok |-> TRUE, dir |-> SubSeq(d, 1, Len(d) - 1)]

Key(f) == <<f.dirs, f.ext>>

\* variant: the extensions are tried from the last to the first
nth_ext_reversed(l, k) == l[Len(l) + 1 - k]

\* the k-th turn of `for ext in &extensions`
nth_ext(l, k) == l[k]

\* the candidate files <dir>/<basename>.<ext> of the working directory w and
\* of each of its ancestors
CandKeys(w, p) ==
    {<<SubSeq(w, 1, d) \o SubSegs(p), e>> : d \in 0..Len(w), e \in Exts}

VARIABLES
    cwd,         \* env::current_dir(), the segments of an absolute path
    path,        \* FileSourceFile.path
    extensions,  \* format_hint.unwrap().extensions()
    fs,          \* kind of each candidate file: absent, file, dir, unreadable
    pc,          \* position in resolve / find_file
    dir,         \* find_file: the search cursor
    filename,    \* find_file: the path probed
    i,           \* find_file: index of the for loop over extensions
    uri,         \* resolve: the display path
    result,      \* what resolve returned
    pops,        \* number of successful dir.pop() calls
    opens,       \* number of fs::File::open calls
    env,         \* number of changes made by the concurrent actor
    target,      \* path_relative_from: path
    base,        \* path_relative_from: base
    rel          \* path_relative_from: what it returned (in an Option)

vars == <<cwd, path, extensions, fs, pc, dir, filename, i, uri, result,
          pops, opens, env, target, base, rel>>

inputs == <<cwd, path, extensions>>
relvars == <<target, base, rel>>

NoResult == [tag |-> "none"]
Ok(u, t) == [tag |-> "Ok", uri |-> u, text |-> t]
Err(k, o, m) == [tag |-> "Err", kind |-> k, os |-> o, msg |-> m]

\* variant: Path::exists instead of Path::is_file
is_file_exists(f) == Key(f) \in DOMAIN fs /\ fs[Key(f)] # "absent"

\* Path::is_file: metadata says regular file (permissions are not consulted)
is_file(f) == Key(f) \in DOMAIN fs /\ fs[Key(f)] \in {"file", "unreadable"}

\* the text of a file, told apart by where the file is
read_to_string(f) == "text of " \o to_string(ToPath(f))

\* the io::Error of find_file when the search is exhausted
not_found(b) ==
    Err("NotFound", FALSE, "configuration file \"" \o to_string(b) \o "\" not found")

\* variant: the arguments of path_relative_from exchanged
display_swapped(f, b) ==
    LET r == path_relative_from(b, f) IN IF r = None THEN f ELSE r[1]

\* the display path of resolve: the relative path, else the file path
display(f, b) ==
    LET r == path_relative_from(f, b) IN IF r = None THEN f ELSE r[1]

\* variant: a file that cannot be opened reads as empty
open_and_read_lenient(f, u) ==
    IF Key(f) \in DOMAIN fs /\ fs[Key(f)] = "file"
    THEN Ok(Some(to_string(u)), read_to_string(f))
    ELSE Ok(Some(to_string(u)), "")

\* fs::File::open followed by read_to_string
open_and_read(f, u) ==
    IF Key(f) \notin DOMAIN fs \/ fs[Key(f)] = "absent"
        THEN Err("NotFound", TRUE, "os error 2")
    ELSE IF fs[Key(f)] = "unreadable"
        THEN Err("PermissionDenied", TRUE, "os error 13")
    ELSE IF fs[Key(f)] = "dir"
        THEN Err("Other", TRUE, "os error 21")
    ELSE Ok(Some(to_string(u)), read_to_string(f))

AllExtLists ==
    {<<>>} \cup {<<e>> : e \in Exts}
           \cup {l \in Exts \X Exts : l[1] # l[2]}

NoFile == [dirs |-> <<>>, stem |-> "", ext |-> ""]

RelIdle == target = EmptyPath /\ base = EmptyPath /\ rel = None

Init ==
    /\ \E d \in 0..MaxDepth : cwd = SubSeq(DirNames, 1, d)
    /\ path \in {None, Some("conf")}
    /\ extensions \in AllExtLists
    /\ fs \in [CandKeys(cwd, path) -> {"absent", "file", "dir"}]
    /\ pc = "start"
    /\ dir = <<>>
    /\ filename = NoFile
    /\ i = 1
    /\ uri = EmptyPath
    /\ result = NoResult
    /\ pops = 0
    /\ opens = 0
    /\ env = 0
    /\ RelIdle

\* find_file up to the loop: the cursor and the probed path start at the
\* working directory
Begin ==
    /\ pc = "start"
    /\ dir' = cwd
    /\ filename' = join(cwd, basename_of(path))
    /\ i' = 1
    /\ pc' = "loop"
    /\ UNCHANGED <<inputs, fs, uri, result, pops, opens, env, relvars>>

\* one turn of the for loop: set the extension, probe the file
Probe ==
    /\ pc = "loop"
    /\ i <= Len(extensions)
    /\ filename' = set_extension(filename, nth_ext(extensions, i))
    /\ IF is_file(filename')
          THEN pc' = "found" /\ i' = i
          ELSE pc' = pc /\ i' = i + 1
    /\ UNCHANGED <<inputs, fs, dir, uri, result, pops, opens, env, relvars>>

\* after the for loop: move the cursor up, or give up on the root
Pop ==
    /\ pc = "loop"
    /\ i > Len(extensions)
    /\ LET r == pop(dir) IN
         IF r.ok
         THEN /\ dir' = r.dir
              /\ pops' = pops + 1
              /\ i' = 1
              /\ UNCHANGED <<pc, result>>
         ELSE /\ result' = not_found(basename_of(path))
              /\ pc' = "done"
              /\ UNCHANGED <<dir, pops, i>>
    /\ UNCHANGED <<inputs, fs, filename, uri, opens, env, relvars>>

\* resolve, after find_file returned Ok(filename): the display path
Relativize ==
    /\ pc = "found"
    /\ uri' = display(ToPath(filename), AbsDir(cwd))
    /\ pc' = "open"
    /\ UNCHANGED <<inputs, fs, dir, filename, i, result, pops, opens, env, relvars>>

\* resolve: open the file and read it
Open ==
    /\ pc = "open"
    /\ result' = open_and_read(filename, uri)
    /\ opens' = opens + 1
    /\ pc' = "done"
    /\ UNCHANGED <<inputs, fs, dir, filename, i, uri, pops, env, relvars>>

Next == Begin \/ Probe \/ Pop \/ Relativize \/ Open

Spec == Init /\ [][Next]_vars

\* ------------------------------------------------- concurrent filesystem
\* another actor removes the matched file between the probe and the open
EnvRemove ==
    /\ pc \in {"found", "open"}
    /\ env < MaxEnv
    /\ fs[Key(filename)] # "absent"
    /\ fs' = [fs EXCEPT ![Key(filename)] = "absent"]
    /\ env' = env + 1
    /\ UNCHANGED <<inputs, pc, dir, filename, i, uri, result, pops, opens, relvars>>

\* another actor takes the read permission of the matched file away
EnvChmod ==
    /\ pc \in {"found", "open"}
    /\ env < MaxEnv
    /\ fs[Key(filename)] = "file"
    /\ fs' = [fs EXCEPT ![Key(filename)] = "unreadable"]
    /\ env' = env + 1
    /\ UNCHANGED <<inputs, pc, dir, filename, i, uri, result, pops, opens, relvars>>

NextRace == Begin \/ Probe \/ Pop \/ Relativize \/ Open \/ EnvRemove \/ EnvChmod

SpecRace == Init /\ [][NextRace]_vars

\* ------------------------------------------- path_relative_from on its own
SeqsUpTo(S, n) == UNION {[1..k -> S] : k \in 0..n}

Paths == {[abs |-> a, segs |-> s] : a \in BOOLEAN, s \in SeqsUpTo(Segs, MaxLen)}

InitRel ==
    /\ target \in Paths
    /\ base \in Paths
    /\ rel = None
    /\ pc = "rel_call"
    /\ cwd = <<>>
    /\ path = None
    /\ extensions = <<>>
    /\ fs = <<>>
    /\ dir = <<>>
    /\ filename = NoFile
    /\ i = 1
    /\ uri = EmptyPath
    /\ result = NoResult
    /\ pops = 0
    /\ opens = 0
    /\ env = 0

Call ==
    /\ pc = "rel_call"
    /\ rel' = path_relative_from(target, base)
    /\ pc' = "rel_done"
    /\ UNCHANGED <<inputs, fs, dir, filename, i, uri, result, pops, opens, env,
                   target, base>>

NextRel == Call

SpecRel == InitRel /\ [][NextRel]_vars

\* ================================================================ claims
Range(l) == {l[k] : k \in 1..Len(l)}

\* the directory holding the candidates d components below the root
CandDir(d) == SubSeq(cwd, 1, d) \o SubSegs(path)

CandFile(d, e) == [dirs |-> CandDir(d), stem |-> name, ext |-> e]

Regular(d, e) == fs[<<CandDir(d), e>>] = "file"

\* depths of the directories, from the working directory up to the root,
\* that hold a regular file <basename>.<ext> with ext in the candidate list
Holding == {d \in 0..Len(cwd) : \E e \in Range(extensions) : Regular(d, e)}

Nearest == CHOOSE d \in Holding : \A o \in Holding : o <= d

\* the first extension of the list with a regular file in the directory
FirstExt(d) ==
    LET k == CHOOSE j \in 1..Len(extensions) :
                 /\ Regular(d, extensions[j])
                 /\ \A h \in 1..(j - 1) : ~Regular(d, extensions[h])
    IN  extensions[k]

Returned == pc = "done"

\* C1: when some directory among the working directory and its ancestors
\* holds a regular candidate file, resolve succeeds with the text of a
\* candidate file of the nearest such directory.
C1_NearestFileFound ==
    (Returned /\ Holding # {}) =>
        /\ result.tag = "Ok"
        /\ \E e \in Range(extensions) :
              /\ Regular(Nearest, e)
              /\ result.text = read_to_string(CandFile(Nearest, e))

C3_Exhaustion ==
    (Returned /\ Holding = {}) =>
        /\ result.tag = "Err"
        /\ result.kind = "NotFound"
        /\ result.msg = IF path = None
                        THEN "configuration file \"Settings\" not found"
                        ELSE "configuration file \"conf/Settings\" not found"

C3_Witness ==
    /\ Returned
    /\ Holding = {}
    /\ Len(cwd) >= 2
    /\ path # None
    /\ Len(extensions) = 2
    /\ \E k \in DOMAIN fs : fs[k] = "dir"
    /\ result.tag = "Err"
    /\ filename.ext # ""

\* C5: a successful resolve returns Some display path: the relative path of
\* the found file from the working directory when path_relative_from yields
\* one, the found path otherwise; the text is that of the found file.
C5_DisplayPath ==
    (Returned /\ result.tag = "Ok") =>
        LET f == ToPath(filename)
            r == path_relative_from(f, AbsDir(cwd))
        IN  /\ result.uri # None
            /\ result.uri = Some(to_string(IF r = None THEN f ELSE r[1]))
            /\ result.text = read_to_string(filename)
            /\ is_file(filename)

C5_Witness ==
    /\ Returned
    /\ result.tag = "Ok"
    /\ Len(cwd) >= 1
    /\ result.uri = Some("conf/Settings.yaml")

\* C6 as claimed: an empty candidate list is rejected with an error other
\* than NotFound before the cursor moves.
C6_EmptyRejected ==
    (Returned /\ extensions = <<>>) =>
        /\ result.tag = "Err"
        /\ result.kind # "NotFound"
        /\ pops = 0

\* C6 amended: with an empty candidate list resolve probes no file, moves the
\* cursor up to the root and fails with NotFound carrying the basename.
C6_EmptyNotFound ==
    (Returned /\ extensions = <<>>) =>
        /\ result.tag = "Err"
        /\ result.kind = "NotFound"
        /\ ~result.os
        /\ filename.ext = ""
        /\ pops = Len(cwd)
        /\ opens = 0

C6_Witness ==
    /\ Returned
    /\ extensions = <<>>
    /\ Len(cwd) >= 2
    /\ \E k \in DOMAIN fs : fs[k] = "file"
    /\ result.tag = "Err"

\* number of steps the call has left at most: turns of the for loop and
\* moves of the cursor still possible, then the display path and the open
Rank ==
    CASE pc = "start" -> (Len(cwd) + 1) * (Len(extensions) + 1) + 3
      [] pc = "loop"  -> Len(dir) * (Len(extensions) + 1) + (Len(extensions) + 1 - i) + 3
      [] pc = "found" -> 2
      [] pc = "open"  -> 1
      [] OTHER        -> 0

\* find_file has returned, with a file or with NotFound
WalkOver == pc \in {"found", "open", "done"}

\* C8: the walk terminates: the cursor moves to a parent at most
\* depth(working directory) times and is the working directory shortened by
\* the moves made, the walk can always take a step until find_file has
\* returned, and every step lowers the number of steps left, which is never
\* negative.
C8_WalkTerminates ==
    /\ [](/\ pops <= Len(cwd)
          /\ pc \in {"loop", "found"} => dir = SubSeq(cwd, 1, Len(cwd) - pops)
          /\ Rank >= 0
          /\ ~WalkOver => ENABLED (Begin \/ Probe \/ Pop))
    /\ [][Rank' < Rank]_vars

C8_Witness ==
    /\ Returned
    /\ Len(cwd) >= 2
    /\ pops = Len(cwd)
    /\ extensions # <<>>
    /\ dir = <<>>

\* ------------------------------------------------ path_relative_from
Normal(p) == \A k \in 1..Len(p.segs) : p.segs[k] \notin {".", ".."}

\* length of the longest common prefix of two sequences
CommonPrefix(s, t) ==
    CHOOSE k \in 0..Len(s) :
        /\ k <= Len(t)
        /\ SubSeq(s, 1, k) = SubSeq(t, 1, k)
        /\ \A h \in (k + 1)..Len(s) : h > Len(t) \/ SubSeq(s, 1, h) # SubSeq(t, 1, h)

Called == pc = "rel_done"

\* C4: for absolute paths of ordinary components with longest common prefix
\* of length k, the result is Some of (len(base) - k) times ".." followed by
\* the components of target after position k.
C4_RelativeOfNormalPaths ==
    (Called /\ target.abs /\ base.abs /\ Normal(target) /\ Normal(base)) =>
        LET k == CommonPrefix(target.segs, base.segs)
        IN  rel = Some([abs  |-> FALSE,
                        segs |-> [h \in 1..(Len(base.segs) - k) |-> ".."]
                                 \o SubSeq(target.segs, k + 1, Len(target.segs))])

\* /a/b/c against /a/c/b: two steps up, then b/c
C4_Witness ==
    /\ Called
    /\ target = [abs |-> TRUE, segs |-> <<"a", "b", "c">>]
    /\ base = [abs |-> TRUE, segs |-> <<"a", "c", "b">>]
    /\ rel = Some([abs |-> FALSE, segs |-> <<"..", "..", "b", "c">>])

\* C7: an absolute target against a relative base is returned unchanged, a
\* relative target against an absolute base is not computable.
C7_MixedKinds ==
    (Called /\ target.abs # base.abs) =>
        /\ target.abs => rel = Some(target)
        /\ ~target.abs => rel = None

C7_Witness ==
    /\ Called
    /\ target = [abs |-> TRUE, segs |-> <<"a", ".", "b">>]
    /\ base = [abs |-> FALSE, segs |-> <<"a", "c">>]
    /\ rel = Some(target)

\* C9: for paths of the same kind, a ".." component of base beyond the
\* shared prefix makes the result None.
C9_ParentDirInBase ==
    (Called /\ target.abs = base.abs) =>
        LET ca == components(target)
            cb == components(base)
            k  == CommonPrefix(ca, cb)
        IN  (\E h \in (k + 1)..Len(cb) : cb[h] = "..") => rel = None

\* ------------------------------------------------------------- the race
\* the matched file was no longer a readable regular file when it was opened
Raced == Returned /\ opens > 0 /\ fs[Key(filename)] # "file"

\* the search did not go on after the match
Stopped ==
    /\ opens = 1
    /\ pops = 0
    /\ dir = cwd
    /\ i <= Len(extensions)
    /\ filename = CandFile(Len(cwd), extensions[i])

====
